---- MODULE Spec2Model ----
(***************************************************************************)
(* Model of src/index.tsx: the image edit page.  Three module-level        *)
(* variables (imageBase64, imageMimeType, editedImageSrc), the DOM         *)
(* properties the handlers read and write, the FileReader callbacks that   *)
(* are pending and the callGemini invocations suspended at their await.    *)
(*                                                                         *)
(* A JavaScript string is a sequence of tokens (a token is a run of        *)
(* characters that holds no separator); the separators ":" ";" "," and the *)
(* whitespace characters are tokens of their own.  split, trim and the     *)
(* template literal are computed on these sequences.                       *)
(***************************************************************************)
EXTENDS Integers, Sequences, FiniteSets, Bags, TLC

\* ---------------------------------------------------------------- bounds
MaxReads == 2       \* file reads in progress at one time
MaxRequests == 2    \* calls of callGemini suspended at one time

\* --------------------------------------------------------------- strings
\* null (lines 10-12); the token "null" is used by no string of the model
NULL == <<"null">>

Whitespace == {" ", "\t", "\n"}

\* String.prototype.split(sep) for a one-character separator
RECURSIVE Split(_, _)
Split(s, sep) ==
    IF \E i \in 1..Len(s) : s[i] = sep
    THEN LET i == CHOOSE k \in 1..Len(s) :
                     s[k] = sep /\ \A j \in 1..(k - 1) : s[j] # sep
         IN  <<SubSeq(s, 1, i - 1)>> \o Split(SubSeq(s, i + 1, Len(s)), sep)
    ELSE <<s>>

\* String.prototype.trim()
RECURSIVE Trim(_)
Trim(s) ==
    IF s = <<>> THEN s
    ELSE IF Head(s) \in Whitespace THEN Trim(Tail(s))
    ELSE IF s[Len(s)] \in Whitespace THEN Trim(SubSeq(s, 1, Len(s) - 1))
    ELSE s

\* JavaScript truthiness of a value of type string | null
Truthy(s) == s # NULL /\ s # <<>>

\* the data URL built with the MIME type of the download's file name
\* instead of the part's
ImageUrlAlwaysPng(mimeType, data) ==
    <<"data", ":", "image/png", ";", "base64", ",">> \o data

\* `data:${mimeType};base64,${data}` (line 145)
ImageUrl(mimeType, data) ==
    <<"data", ":">> \o mimeType \o <<";", "base64", ",">> \o data

\* ---------------------------------------------------------------- inputs
\* what FileReader.readAsDataURL hands to onload (line 47)
PngUrl == <<"data", ":", "image/png", ";", "base64", ",", "AAAA">>
EmptyPayloadUrl == <<"data", ":", "text/plain", ";", "base64", ",">>
NoCommaUrl == <<"data", ":", "image/png", ";", "base64">>
TwoCommaUrl == <<"data", ":", "image/png", ";", "base64", ",", "AA", ",", "BB">>

ReadResults == {PngUrl, EmptyPayloadUrl, NoCommaUrl, TwoCommaUrl}

\* promptInput.value set on line 27
DefaultPrompt ==
    <<"modifica", " ", "la", " ", "imagen", " ", "y", " ", "dale", " ", "un",
      " ", "aspecto", " ", "profesional", ",", " ", "donde", " ", "los", " ",
      "colores", " ", "destaquen", " ", "y", " ", "resalten", " ", "lo", " ",
      "mejor", " ", "de", " ", "la", " ", "fotografia">>

\* texts the user types into the textarea (line 18)
TypedPrompts == {<<>>, <<" ", "\n">>}

\* values of the options of the dropdown (line 31); the first option is the
\* placeholder with the empty value
ExampleValues == {<<>>, <<"blanco", " ", "y", " ", "negro">>}

\* messages
AlertReadFailed == "No se pudo leer el archivo seleccionado. Por favor, intenta con otra imagen."
AlertNoImage == "Por favor, sube una imagen primero."
AlertNoPrompt == "Por favor, ingresa una instrucción de edición."
AlertNoResult == "No hay imagen editada para descargar."
MsgNoContent == "El modelo no devolvió ningún contenido editable."
MsgNoResponse == "No hubo respuesta del modelo. Por favor, inténtalo de nuevo."
MsgError == "Ocurrió un error. Por favor, revisa la consola para más detalles."
DownloadName == "imagen-editada.png"

\* ------------------------------------------------------------ DOM nodes
Node(tag, src, text, cls) == [tag |-> tag, src |-> src, text |-> text, cls |-> cls]
\* #result-placeholder (line 22), a child of the container in the markup
PlaceholderNode == Node("placeholder", <<>>, <<>>, "")
\* #loader (line 23)
LoaderNode == Node("loader", <<>>, <<>>, "")
\* img built on lines 144-147: src is the data URL, alt the prompt
ImgNode(url, prompt) == Node("img", url, prompt, "")
\* p built on lines 156-158
TextNode(text) == Node("p", <<>>, text, "model-text")
\* p built on lines 181-183
ErrorNode(message) == Node("p", <<>>, <<message>>, "error")

\* ------------------------------------------------------------- responses
\* a part of candidates[0].content.parts: isNull is a null entry of the
\* array, hasInline is part.inlineData being set, text is part.text ("" when
\* absent)
Part(isNull, hasInline, mimeType, data, text) ==
    [isNull |-> isNull, hasInline |-> hasInline, mimeType |-> mimeType,
     data |-> data, text |-> text]
ImgPartA == Part(FALSE, TRUE, <<"image/png">>, <<"R1">>, <<>>)
ImgPartB == Part(FALSE, TRUE, <<"image/jpeg">>, <<"R2">>, <<>>)
TextPart == Part(FALSE, FALSE, <<>>, <<>>, <<"listo">>)
EmptyPart == Part(FALSE, FALSE, <<>>, <<>>, <<>>)
NullPart == Part(TRUE, FALSE, <<>>, <<>>, <<>>)

\* the arrays candidates[0].content.parts takes
PartLists ==
    {<<>>, <<ImgPartA>>, <<TextPart>>, <<EmptyPart>>, <<NullPart>>,
     <<ImgPartA, ImgPartB>>, <<TextPart, ImgPartB>>, <<ImgPartA, NullPart>>,
     <<ImgPartB, EmptyPart, ImgPartA>>}

\* what the awaited generateContent call settles with (line 119):
\*   "reject"       the promise rejects
\*   "nocandidates" response.candidates is undefined
\*   "candidates"   response.candidates has n = 0 or 1 entries; hasParts is
\*                  candidates[0].content.parts being an array
Response(kind, n, hasParts, parts) ==
    [kind |-> kind, n |-> n, hasParts |-> hasParts, parts |-> parts]
NoResponse == Response("none", 0, FALSE, <<>>)
Responses ==
    {Response("reject", 0, FALSE, <<>>),
     Response("nocandidates", 0, FALSE, <<>>),
     Response("candidates", 0, FALSE, <<>>),
     Response("candidates", 1, FALSE, <<>>)}
    \cup {Response("candidates", 1, TRUE, ps) : ps \in PartLists}

\* ----------------------------------------------------------------- state
VARIABLES
    imageBase64,             \* line 10
    imageMimeType,           \* line 11
    editedImageSrc,          \* line 12
    promptValue,             \* promptInput.value
    originalImageSrc,        \* originalImage.src
    originalImageDisplay,    \* originalImage.style.display
    uploadPlaceholderHidden, \* uploadPlaceholder has class hidden
    editDisabled,            \* editButton.disabled
    loaderHidden,            \* loader has class hidden
    downloadHidden,          \* downloadButton has class hidden
    resultContainer,         \* children of resultContainer, in order
    pending,                 \* bag of the data URLs of the readers whose
                             \* onload has not run yet
    outstanding,             \* bag of the arguments of the calls of
                             \* callGemini suspended at the await of line 119
    lastOp,                  \* the handler that ran last
    lastResp,                \* the response it processed
    alertMsg,                \* alert() shown by the handler that ran last
    saved,                   \* href of the link it clicked (lines 95-99)
    savedName,               \* download attribute of that link (line 97)
    uncaught,                \* error it threw out of the handler
    recentImage              \* history: the data URL of the last inline-image
                             \* part of the response processed most recently
                             \* among those holding one, null since a request
                             \* was issued after it

vars ==
    <<imageBase64, imageMimeType, editedImageSrc, promptValue,
      originalImageSrc, originalImageDisplay, uploadPlaceholderHidden,
      editDisabled, loaderHidden, downloadHidden, resultContainer, pending,
      outstanding, lastOp, lastResp, alertMsg, saved, savedName, uncaught,
      recentImage>>

imageVars ==
    <<imageBase64, imageMimeType, originalImageSrc, originalImageDisplay,
      uploadPlaceholderHidden>>
resultVars ==
    <<editedImageSrc, loaderHidden, downloadHidden, resultContainer,
      recentImage>>

\* the arguments of a call of callGemini (line 105)
Request(prompt, base64Data, mimeType) ==
    [prompt |-> prompt, base64Data |-> base64Data, mimeType |-> mimeType]

\* the markup is not part of the source: the loader and the download button
\* start with the class hidden that lines 109-111 toggle, the edit button
\* with or without the disabled attribute
Init ==
    /\ imageBase64 = NULL
    /\ imageMimeType = NULL
    /\ editedImageSrc = NULL
    /\ promptValue = DefaultPrompt
    /\ originalImageSrc = <<>>
    /\ originalImageDisplay = ""
    /\ uploadPlaceholderHidden = FALSE
    /\ editDisabled \in BOOLEAN
    /\ loaderHidden = TRUE
    /\ downloadHidden = TRUE
    /\ resultContainer = <<PlaceholderNode>>
    /\ pending = EmptyBag
    /\ outstanding = EmptyBag
    /\ lastOp = "init"
    /\ lastResp = NoResponse
    /\ alertMsg = ""
    /\ saved = NULL
    /\ savedName = ""
    /\ uncaught = ""
    /\ recentImage = NULL

\* what a handler reports when it shows no alert, saves nothing, throws nothing
Ran(op, resp) ==
    /\ lastOp' = op
    /\ lastResp' = resp
Quiet ==
    /\ alertMsg' = ""
    /\ saved' = NULL
    /\ savedName' = ""
    /\ uncaught' = ""

\* --------------------------------------------------- example prompts
\* the change handler adding the example to the text instead of replacing it
PromptAfterExampleAppends(selectedValue, current) ==
    IF selectedValue # <<>> THEN current \o selectedValue ELSE current

\* change handler of the dropdown (lines 30-35)
PromptAfterExample(selectedValue, current) ==
    IF selectedValue # <<>> THEN selectedValue ELSE current

SelectExample(v) ==
    /\ promptValue' = PromptAfterExample(v, promptValue)
    /\ Ran("example", NoResponse)
    /\ Quiet
    /\ UNCHANGED <<imageVars, resultVars, editDisabled, pending, outstanding>>

\* the user edits the textarea (line 18)
TypePrompt(p) ==
    /\ promptValue' = p
    /\ Ran("type", NoResponse)
    /\ Quiet
    /\ UNCHANGED <<imageVars, resultVars, editDisabled, pending, outstanding>>

\* ------------------------------------------------------ image selection
\* change handler of the file input with no file chosen (lines 39-42)
SelectNoFile ==
    /\ Ran("selectNone", NoResponse)
    /\ Quiet
    /\ UNCHANGED <<imageVars, resultVars, promptValue, editDisabled, pending,
                   outstanding>>

\* change handler of the file input with a file (lines 44-65): a new reader
\* is started; new FileReader() and readAsDataURL of a File do not throw, so
\* the catch of lines 66-69 does not run
SelectImage(url) ==
    /\ BagCardinality(pending) < MaxReads
    /\ pending' = pending (+) SetToBag({url})
    /\ Ran("select", NoResponse)
    /\ Quiet
    /\ UNCHANGED <<imageVars, resultVars, promptValue, editDisabled,
                   outstanding>>

\* the fields reader.onload reads and writes
ImageState ==
    [imageBase64 |-> imageBase64, imageMimeType |-> imageMimeType,
     originalImageSrc |-> originalImageSrc,
     originalImageDisplay |-> originalImageDisplay,
     uploadPlaceholderHidden |-> uploadPlaceholderHidden,
     editDisabled |-> editDisabled, thrown |-> ""]

\* reader.onload that rejects only a data URL with no comma
ReaderOnloadAtLeastTwo(result, cur) ==
    LET dataUrlParts == Split(result, ",")
    IN  IF Len(dataUrlParts) < 2
        THEN [cur EXCEPT !.thrown = "Invalid data URL format"]
        ELSE [imageBase64 |-> dataUrlParts[2],
              imageMimeType |-> Split(Split(dataUrlParts[1], ":")[2], ";")[1],
              originalImageSrc |-> result,
              originalImageDisplay |-> "block",
              uploadPlaceholderHidden |-> TRUE,
              editDisabled |-> FALSE,
              thrown |-> ""]

\* reader.onload that takes the MIME type from the prefix without dropping
\* the scheme
ReaderOnloadKeepsScheme(result, cur) ==
    LET dataUrlParts == Split(result, ",")
    IN  IF Len(dataUrlParts) # 2
        THEN [cur EXCEPT !.thrown = "Invalid data URL format"]
        ELSE [imageBase64 |-> dataUrlParts[2],
              imageMimeType |-> Split(dataUrlParts[1], ";")[1],
              originalImageSrc |-> result,
              originalImageDisplay |-> "block",
              uploadPlaceholderHidden |-> TRUE,
              editDisabled |-> FALSE,
              thrown |-> ""]

\* reader.onload (lines 46-64); thrown is the error it throws
ReaderOnload(result, cur) ==
    LET dataUrlParts == Split(result, ",")
    IN  IF Len(dataUrlParts) # 2
        THEN [cur EXCEPT !.thrown = "Invalid data URL format"]
        ELSE LET byColon == Split(dataUrlParts[1], ":")
             IN  IF Len(byColon) < 2
                 THEN [cur EXCEPT !.thrown = "TypeError"]
                 ELSE [imageBase64 |-> dataUrlParts[2],
                       imageMimeType |-> Split(byColon[2], ";")[1],
                       originalImageSrc |-> result,
                       originalImageDisplay |-> "block",
                       uploadPlaceholderHidden |-> TRUE,
                       editDisabled |-> FALSE,
                       thrown |-> ""]

\* the load event dropping the previous result when a new image is loaded
OnLoadResetsResult(url) ==
    /\ BagIn(url, pending)
    /\ pending' = pending (-) SetToBag({url})
    /\ LET new == ReaderOnload(url, ImageState)
       IN  /\ imageBase64' = new.imageBase64
           /\ imageMimeType' = new.imageMimeType
           /\ originalImageSrc' = new.originalImageSrc
           /\ originalImageDisplay' = new.originalImageDisplay
           /\ uploadPlaceholderHidden' = new.uploadPlaceholderHidden
           /\ editDisabled' = new.editDisabled
           /\ uncaught' = new.thrown
           /\ editedImageSrc' = IF new.thrown = "" THEN NULL ELSE editedImageSrc
           /\ downloadHidden' = IF new.thrown = "" THEN TRUE ELSE downloadHidden
    /\ alertMsg' = ""
    /\ saved' = NULL
    /\ savedName' = ""
    /\ Ran("onload", NoResponse)
    /\ UNCHANGED <<loaderHidden, resultContainer, recentImage, promptValue,
                   outstanding>>

\* the load event of a reader that read url: it runs outside the try of
\* lines 44-69, so what onload throws reaches no catch and no alert is shown
OnLoad(url) ==
    /\ BagIn(url, pending)
    /\ pending' = pending (-) SetToBag({url})
    /\ LET new == ReaderOnload(url, ImageState)
       IN  /\ imageBase64' = new.imageBase64
           /\ imageMimeType' = new.imageMimeType
           /\ originalImageSrc' = new.originalImageSrc
           /\ originalImageDisplay' = new.originalImageDisplay
           /\ uploadPlaceholderHidden' = new.uploadPlaceholderHidden
           /\ editDisabled' = new.editDisabled
           /\ uncaught' = new.thrown
    /\ alertMsg' = ""
    /\ saved' = NULL
    /\ savedName' = ""
    /\ Ran("onload", NoResponse)
    /\ UNCHANGED <<resultVars, promptValue, outstanding>>

\* ----------------------------------------------------------- submission
\* the checks of the click handler without the trim of line 80
EditClickNoTrim(data, mime, prompt) ==
    IF ~Truthy(data) \/ ~Truthy(mime) THEN "noimage"
    ELSE IF ~Truthy(prompt) THEN "noprompt"
    ELSE "call"

\* the checks of the click handler testing the MIME type alone on line 74
EditClickMimeOnly(data, mime, prompt) ==
    IF ~Truthy(mime) THEN "noimage"
    ELSE IF ~Truthy(Trim(prompt)) THEN "noprompt"
    ELSE "call"

\* the checks of the click handler of editButton (lines 74-83)
EditClick(data, mime, prompt) ==
    IF ~Truthy(data) \/ ~Truthy(mime) THEN "noimage"
    ELSE IF ~Truthy(Trim(prompt)) THEN "noprompt"
    ELSE "call"

\* the fields callGemini reads and writes
ResultState ==
    [resultContainer |-> resultContainer, editedImageSrc |-> editedImageSrc,
     downloadHidden |-> downloadHidden, loaderHidden |-> loaderHidden,
     editDisabled |-> editDisabled, foundContent |-> FALSE, thrown |-> FALSE]

\* callGemini up to the await without the reset of line 112
SetLoadingKeepsResult(st) ==
    [st EXCEPT !.resultContainer = <<LoaderNode>>,
               !.loaderHidden = FALSE,
               !.editDisabled = TRUE,
               !.downloadHidden = TRUE]

\* callGemini up to the await (lines 107-112)
SetLoading(st) ==
    [st EXCEPT !.resultContainer = <<LoaderNode>>,
               !.loaderHidden = FALSE,
               !.editDisabled = TRUE,
               !.downloadHidden = TRUE,
               !.editedImageSrc = NULL]

\* displayError without the hiding of the download button of line 185
DisplayErrorKeepsDownload(st, message) ==
    [st EXCEPT !.resultContainer = <<ErrorNode(message)>>]

\* displayError (lines 179-186)
DisplayError(st, message) ==
    [st EXCEPT !.resultContainer = <<ErrorNode(message)>>,
               !.downloadHidden = TRUE]

\* the loop storing only the first image of a response
RECURSIVE ForPartsFirstWins(_, _, _)
ForPartsFirstWins(parts, prompt, st) ==
    IF parts = <<>> THEN st
    ELSE LET part == Head(parts)
             imageUrl == ImageUrl(part.mimeType, part.data)
         IN  IF part.isNull THEN [st EXCEPT !.thrown = TRUE]
             ELSE IF part.hasInline
             THEN ForPartsFirstWins(Tail(parts), prompt,
                      [st EXCEPT !.resultContainer = Append(@, ImgNode(imageUrl, prompt)),
                                 !.editedImageSrc =
                                     IF st.foundContent /\ @ # NULL THEN @ ELSE imageUrl,
                                 !.downloadHidden = FALSE,
                                 !.foundContent = TRUE])
             ELSE IF part.text # <<>>
             THEN ForPartsFirstWins(Tail(parts), prompt,
                      [st EXCEPT !.resultContainer = Append(@, TextNode(part.text)),
                                 !.foundContent = TRUE])
             ELSE ForPartsFirstWins(Tail(parts), prompt, st)

\* the loop putting each image in place of what the container holds
RECURSIVE ForPartsReplaces(_, _, _)
ForPartsReplaces(parts, prompt, st) ==
    IF parts = <<>> THEN st
    ELSE LET part == Head(parts)
             imageUrl == ImageUrl(part.mimeType, part.data)
         IN  IF part.isNull THEN [st EXCEPT !.thrown = TRUE]
             ELSE IF part.hasInline
             THEN ForPartsReplaces(Tail(parts), prompt,
                      [st EXCEPT !.resultContainer = <<ImgNode(imageUrl, prompt)>>,
                                 !.editedImageSrc = imageUrl,
                                 !.downloadHidden = FALSE,
                                 !.foundContent = TRUE])
             ELSE IF part.text # <<>>
             THEN ForPartsReplaces(Tail(parts), prompt,
                      [st EXCEPT !.resultContainer = Append(@, TextNode(part.text)),
                                 !.foundContent = TRUE])
             ELSE ForPartsReplaces(Tail(parts), prompt, st)

\* the loop of lines 142-162; a null entry makes part.inlineData throw
RECURSIVE ForParts(_, _, _)
ForParts(parts, prompt, st) ==
    IF parts = <<>> THEN st
    ELSE LET part == Head(parts)
             imageUrl == ImageUrl(part.mimeType, part.data)
         IN  IF part.isNull THEN [st EXCEPT !.thrown = TRUE]
             ELSE IF part.hasInline
             THEN ForParts(Tail(parts), prompt,
                      [st EXCEPT !.resultContainer = Append(@, ImgNode(imageUrl, prompt)),
                                 !.editedImageSrc = imageUrl,
                                 !.downloadHidden = FALSE,
                                 !.foundContent = TRUE])
             ELSE IF part.text # <<>>
             THEN ForParts(Tail(parts), prompt,
                      [st EXCEPT !.resultContainer = Append(@, TextNode(part.text)),
                                 !.foundContent = TRUE])
             ELSE ForParts(Tail(parts), prompt, st)

\* the try block after the await (lines 119-168)
TryBody(resp, prompt, st) ==
    IF resp.kind = "reject" THEN [st EXCEPT !.thrown = TRUE]
    ELSE LET cleared == [st EXCEPT !.resultContainer = <<>>]
         IN  IF resp.kind = "candidates" /\ resp.n > 0
             THEN IF ~resp.hasParts THEN [cleared EXCEPT !.thrown = TRUE]
                  ELSE LET done == ForParts(resp.parts, prompt, cleared)
                       IN  IF ~done.thrown /\ ~done.foundContent
                           THEN DisplayError(done, MsgNoContent)
                           ELSE done
             ELSE DisplayError(cleared, MsgNoResponse)

\* catch (lines 170-172)
Catch(st) == IF st.thrown THEN DisplayError(st, MsgError) ELSE st

\* the cleanup of lines 174-175 placed at the end of the try block
FinallyAfterTryOnly(st) ==
    IF st.thrown THEN st
    ELSE [st EXCEPT !.loaderHidden = TRUE, !.editDisabled = FALSE]

\* finally without the enabling of the edit button of line 175
FinallyLoaderOnly(st) == [st EXCEPT !.loaderHidden = TRUE]

\* finally (lines 173-176)
Finally(st) == [st EXCEPT !.loaderHidden = TRUE, !.editDisabled = FALSE]

\* callGemini from the await on (lines 119-176)
Resume(resp, prompt, st) == Finally(Catch(TryBody(resp, prompt, st)))

SetResult(st) ==
    /\ resultContainer' = st.resultContainer
    /\ editedImageSrc' = st.editedImageSrc
    /\ downloadHidden' = st.downloadHidden
    /\ loaderHidden' = st.loaderHidden
    /\ editDisabled' = st.editDisabled

\* a click on editButton (lines 73-86); a disabled button gets no click
Submit ==
    /\ ~editDisabled
    /\ LET check == EditClick(imageBase64, imageMimeType, promptValue)
       IN  \/ /\ check = "noimage"
              /\ alertMsg' = AlertNoImage
              /\ UNCHANGED <<resultVars, editDisabled, outstanding>>
           \/ /\ check = "noprompt"
              /\ alertMsg' = AlertNoPrompt
              /\ UNCHANGED <<resultVars, editDisabled, outstanding>>
           \/ /\ check = "call"
              /\ BagCardinality(outstanding) < MaxRequests
              /\ alertMsg' = ""
              /\ outstanding' = outstanding (+)
                     SetToBag({Request(promptValue, imageBase64, imageMimeType)})
              /\ SetResult(SetLoading(ResultState))
              /\ recentImage' = NULL
    /\ saved' = NULL
    /\ savedName' = ""
    /\ uncaught' = ""
    /\ Ran("submit", NoResponse)
    /\ UNCHANGED <<imageVars, promptValue, pending>>

\* the data URL of the last inline-image part a response holds, null when
\* it holds none
LastImageOf(resp) ==
    LET at == {i \in DOMAIN resp.parts :
                   ~resp.parts[i].isNull /\ resp.parts[i].hasInline}
        last == CHOOSE i \in at : \A j \in at : j <= i
    IN  IF resp.kind = "candidates" /\ resp.n > 0 /\ resp.hasParts /\ at # {}
        THEN <<"data", ":">> \o resp.parts[last].mimeType
                 \o <<";", "base64", ",">> \o resp.parts[last].data
        ELSE NULL

\* the resumed call reading the prompt from the textarea again instead of
\* using its parameter
RespondReadsPrompt(r, resp) ==
    /\ BagIn(r, outstanding)
    /\ outstanding' = outstanding (-) SetToBag({r})
    /\ SetResult(Resume(resp, promptValue, ResultState))
    /\ recentImage' =
           IF LastImageOf(resp) # NULL THEN LastImageOf(resp) ELSE recentImage
    /\ Ran("respond", resp)
    /\ Quiet
    /\ UNCHANGED <<imageVars, promptValue, pending>>

\* the awaited call of request r settles with resp (lines 119-176)
Respond(r, resp) ==
    /\ BagIn(r, outstanding)
    /\ outstanding' = outstanding (-) SetToBag({r})
    /\ SetResult(Resume(resp, r.prompt, ResultState))
    /\ recentImage' =
           IF LastImageOf(resp) # NULL THEN LastImageOf(resp) ELSE recentImage
    /\ Ran("respond", resp)
    /\ Quiet
    /\ UNCHANGED <<imageVars, promptValue, pending>>

\* ------------------------------------------------------------- download
\* the click handler without the check of lines 90-93: the link is clicked
\* whatever the stored result is
DownloadClickNoCheck(src) ==
    [alert |-> "", href |-> src, download |-> DownloadName]

\* click handler of downloadButton (lines 89-101): the alert it shows, the
\* href of the link it clicks and its download attribute
DownloadClick(src) ==
    IF ~Truthy(src) THEN [alert |-> AlertNoResult, href |-> NULL, download |-> ""]
    ELSE [alert |-> "", href |-> src, download |-> DownloadName]

\* hiding the button is left to the style sheet; the handler checks the
\* stored result itself
Download ==
    /\ LET out == DownloadClick(editedImageSrc)
       IN  /\ alertMsg' = out.alert
           /\ saved' = out.href
           /\ savedName' = out.download
    /\ uncaught' = ""
    /\ Ran("download", NoResponse)
    /\ UNCHANGED <<imageVars, resultVars, promptValue, editDisabled, pending,
                   outstanding>>

\* ------------------------------------------------------- specification
Next ==
    \/ \E v \in ExampleValues : SelectExample(v)
    \/ \E p \in TypedPrompts : TypePrompt(p)
    \/ SelectNoFile
    \/ \E url \in ReadResults : SelectImage(url)
    \/ \E url \in BagToSet(pending) : OnLoad(url)
    \/ Submit
    \/ \E r \in BagToSet(outstanding) : \E resp \in Responses : Respond(r, resp)
    \/ Download

Spec == Init /\ [][Next]_vars

\* ================================================================ claims
\* a call of callGemini reached its await in this step
RequestIssued == BagCardinality(outstanding') > BagCardinality(outstanding)

\* the string is empty or holds whitespace only
IsBlank(s) == \A i \in DOMAIN s : s[i] \in Whitespace

\* the data URL does not hold exactly one comma
Malformed(url) == Cardinality({i \in DOMAIN url : url[i] = ","}) # 1

\* the load event of a reader that read a malformed data URL ran in this step
MalformedLoaded ==
    /\ lastOp' = "onload"
    /\ \E url \in BagToSet(pending) :
           Malformed(url) /\ pending' = pending (-) SetToBag({url})

\* the data URL of an inline-image part
PartUrl(part) == <<"data", ":">> \o part.mimeType \o <<";", "base64", ",">> \o part.data

\* the positions of the inline-image parts of a list
InlineAt(parts) == {i \in DOMAIN parts : ~parts[i].isNull /\ parts[i].hasInline}

\* C1: in every reachable state at most one edit request is outstanding.
\* The code breaks it: reader.onload enables the edit button while a request
\* is outstanding (line 63), and the next click issues a second request.
C1_AtMostOneOutstanding == BagCardinality(outstanding) <= 1

\* C2: a request is issued only from a state where the stored image data and
\* MIME type are present and the prompt is not blank; a click on the edit
\* button with no image stored or with a blank prompt shows an alert and
\* issues no request.
C2_RequestOnlyWhenValid ==
    [][/\ RequestIssued =>
              /\ imageBase64 # NULL
              /\ imageMimeType # NULL
              /\ ~IsBlank(promptValue)
       /\ (/\ lastOp' = "submit"
           /\ (imageBase64 = NULL \/ imageMimeType = NULL \/ IsBlank(promptValue)))
              => /\ alertMsg' \in {AlertNoImage, AlertNoPrompt}
                 /\ outstanding' = outstanding]_vars

\* a click with an image stored and a whitespace-only prompt was rejected
C2_Witness ==
    /\ lastOp = "submit"
    /\ alertMsg = AlertNoPrompt
    /\ imageBase64 # NULL
    /\ promptValue = <<" ", "\n">>

\* C3: right after a request completes, whatever its outcome, the loader is
\* hidden and the edit button is enabled.
C3_CleanupAfterCompletion ==
    lastOp = "respond" => loaderHidden /\ ~editDisabled

\* a response whose processing threw after an image was rendered has completed
C3_Witness ==
    /\ lastOp = "respond"
    /\ lastResp.parts = <<ImgPartA, NullPart>>
    /\ loaderHidden
    /\ ~editDisabled

\* C4: while a request is outstanding the edit button stays disabled.  The
\* code breaks it: the load event of a file read enables the button (line 63).
C4_DisabledWhileOutstanding == outstanding # EmptyBag => editDisabled

\* C5: when the load event delivers a malformed data URL, an alert is shown.
\* The code breaks it: the error is thrown in the load callback, which runs
\* after the try of lines 44-69 has been left, so the alert of line 68 is
\* not reached.
C5_MalformedShowsNotice ==
    (lastOp = "onload" /\ uncaught # "") => alertMsg # ""

\* C6: the load event of a malformed data URL leaves the stored image data,
\* the stored MIME type, the displayed original image and the enabled state
\* of the edit button as they were.
C6_MalformedLeavesState ==
    [][MalformedLoaded =>
           UNCHANGED <<imageBase64, imageMimeType, originalImageSrc,
                       originalImageDisplay, uploadPlaceholderHidden,
                       editDisabled>>]_vars

\* a malformed data URL was delivered while an image was stored
C6_Witness ==
    /\ lastOp = "onload"
    /\ uncaught = "Invalid data URL format"
    /\ imageBase64 = <<"AAAA">>
    /\ originalImageSrc = PngUrl

\* C7: the stored image data and MIME type are both null or both set, and
\* when set they are the payload and the MIME type of one data URL that was
\* read, the one on display.
C7_ImageFieldsTogether ==
    /\ imageBase64 = NULL <=> imageMimeType = NULL
    /\ imageBase64 # NULL =>
           /\ originalImageSrc \in ReadResults
           /\ originalImageSrc =
                  <<"data", ":">> \o imageMimeType \o <<";", "base64", ",">>
                      \o imageBase64

\* a read completed while another read was still in progress
C7_Witness ==
    /\ lastOp = "onload"
    /\ imageBase64 = <<>>
    /\ imageMimeType = <<"text/plain">>
    /\ BagIn(PngUrl, pending)

\* C8: a click that issues a request sets editedImageSrc to null in the same
\* step, and editedImageSrc takes a new non-null value only when a response
\* with an inline-image part is processed, the value being that part's data
\* URL.
C8_ResultClearedThenSetByImage ==
    [][/\ RequestIssued => editedImageSrc' = NULL
       /\ (editedImageSrc' # NULL /\ editedImageSrc' # editedImageSrc) =>
              /\ lastOp' = "respond"
              /\ \E i \in InlineAt(lastResp'.parts) :
                     editedImageSrc' = PartUrl(lastResp'.parts[i])]_vars

\* a second request was issued while the first was outstanding, and the
\* stored result is null
C8_Witness ==
    /\ lastOp = "submit"
    /\ alertMsg = ""
    /\ BagCardinality(outstanding) = 2
    /\ editedImageSrc = NULL

\* C9: a click on the download button saves a file only when editedImageSrc
\* is set, and then saves that data URL; with editedImageSrc null it shows an
\* alert, saves nothing and changes no state.
C9_DownloadNeedsResult ==
    [][lastOp' = "download" =>
           /\ saved' # NULL => (editedImageSrc # NULL /\ saved' = editedImageSrc)
           /\ editedImageSrc = NULL =>
                  /\ alertMsg' = AlertNoResult
                  /\ saved' = NULL
                  /\ UNCHANGED <<imageVars, resultVars, promptValue,
                                 editDisabled, pending, outstanding>>]_vars

\* the download button was clicked after a request completed with no image
C9_Witness ==
    /\ lastOp = "download"
    /\ alertMsg = AlertNoResult
    /\ saved = NULL
    /\ resultContainer = <<ErrorNode(MsgNoContent)>>

WellFormed(resp) ==
    /\ resp.kind = "candidates" /\ resp.n > 0 /\ resp.hasParts
    /\ \A i \in DOMAIN resp.parts : ~resp.parts[i].isNull

\* the response holds no candidate, or a first candidate with zero parts
NoCandidateOrNoParts(resp) ==
    \/ resp.kind = "nocandidates"
    \/ resp.kind = "candidates" /\ resp.n = 0
    \/ resp.kind = "candidates" /\ resp.n > 0 /\ resp.hasParts /\ resp.parts = <<>>

\* the request rejected, or processing the response threw
ErrorRaised(resp) ==
    \/ resp.kind = "reject"
    \/ resp.kind = "candidates" /\ resp.n > 0 /\ ~resp.hasParts
    \/ resp.kind = "candidates" /\ resp.n > 0 /\ resp.hasParts
          /\ \E i \in DOMAIN resp.parts : resp.parts[i].isNull

\* the img elements of the result container
ImagesIn(container) == {i \in DOMAIN container : container[i].tag = "img"}

\* C11: after a response with no candidate list, an empty candidate list or
\* a first candidate with zero parts, the result area shows an advisory, the
\* download button is hidden and editedImageSrc is null.  The code breaks
\* the last part when requests overlap (C1): the image stored by the first
\* response stays stored after the second response shows its advisory,
\* displayError not resetting editedImageSrc.
C11_EmptyResponseLeavesNoResult ==
    (lastOp = "respond" /\ NoCandidateOrNoParts(lastResp)) =>
        /\ resultContainer \in {<<ErrorNode(MsgNoResponse)>>, <<ErrorNode(MsgNoContent)>>}
        /\ downloadHidden
        /\ editedImageSrc = NULL

\* C12: after a request that rejected, or a response whose processing threw,
\* the result area holds the generic error advisory alone and the download
\* button is hidden.
C12_ErrorShowsOnlyAdvisory ==
    (lastOp = "respond" /\ ErrorRaised(lastResp)) =>
        /\ resultContainer = <<ErrorNode(MsgError)>>
        /\ downloadHidden

\* processing threw after an image part was rendered and stored
C12_Witness ==
    /\ lastOp = "respond"
    /\ lastResp.parts = <<ImgPartA, NullPart>>
    /\ resultContainer = <<ErrorNode(MsgError)>>
    /\ editedImageSrc = PartUrl(ImgPartA)

\* C15: after a response whose parts are all part objects is processed, the
\* result area holds as many images as the response holds inline-image
\* parts; with exactly one, one image is rendered and the download button is
\* visible.
C15_OneImagePerInlinePart ==
    (lastOp = "respond" /\ WellFormed(lastResp)) =>
        /\ Cardinality(ImagesIn(resultContainer))
               = Cardinality(InlineAt(lastResp.parts))
        /\ Cardinality(InlineAt(lastResp.parts)) = 1 =>
               /\ Cardinality(ImagesIn(resultContainer)) = 1
               /\ ~downloadHidden

\* a response with a text part and one image part was processed
C15_Witness ==
    /\ lastOp = "respond"
    /\ lastResp.parts = <<TextPart, ImgPartB>>
    /\ Cardinality(ImagesIn(resultContainer)) = 1
    /\ ~downloadHidden

\* C16: once a validated submit has replaced the placeholder of the result
\* area, the download button is visible exactly when editedImageSrc is set.
\* The code breaks it: a response that throws after an image part was stored
\* hides the button (line 185) and leaves editedImageSrc set.
C16_DownloadVisibleIffResult ==
    resultContainer # <<PlaceholderNode>> =>
        (~downloadHidden <=> editedImageSrc # NULL)

\* C13: a download that saves a file saves it under imagen-editada.png, and
\* what it saves is the data URL of the image part of the response processed
\* most recently among those holding one, no request having been issued
\* since; it is never the uploaded image.
C13_DownloadSavesLatestResult ==
    (lastOp = "download" /\ saved # NULL) =>
        /\ savedName = "imagen-editada.png"
        /\ saved = recentImage
        /\ saved # originalImageSrc
        /\ saved \notin ReadResults

\* a result was downloaded after the source image was replaced
C13_Witness ==
    /\ lastOp = "download"
    /\ saved = <<"data", ":", "image/jpeg", ";", "base64", ",", "R2">>
    /\ savedName = "imagen-editada.png"
    /\ originalImageSrc = EmptyPayloadUrl

\* a click on the edit button that issues a request
SubmitIssues == Submit /\ RequestIssued

\* C14: in the state right after a request completes, whatever its outcome,
\* and in every later state where no request is outstanding, with image data
\* and MIME type stored (non-empty) and a prompt that is not blank, a click
\* on the edit button is accepted and issues a new request.
C14_SubmitAcceptedAfterCompletion ==
    (/\ \/ lastOp = "respond"
        \/ resultContainer # <<PlaceholderNode>> /\ outstanding = EmptyBag
     /\ Truthy(imageBase64) /\ Truthy(imageMimeType)
     /\ ~IsBlank(promptValue))
        => ~editDisabled /\ ENABLED SubmitIssues

\* a request has been rejected with an image stored and the default prompt
C14_Witness ==
    /\ lastOp = "respond"
    /\ lastResp.kind = "reject"
    /\ imageBase64 = <<"AAAA">>
    /\ promptValue = DefaultPrompt
    /\ ~editDisabled

\* C17: a click on the edit button with no image stored or with a blank
\* prompt leaves the stored result, the result area, the download button,
\* the edit button, the loader and the rest of the session state as they were.
C17_RejectedSubmitChangesNothing ==
    [][(/\ lastOp' = "submit"
        /\ \/ ~Truthy(imageBase64)
           \/ ~Truthy(imageMimeType)
           \/ IsBlank(promptValue))
           => UNCHANGED <<editedImageSrc, resultContainer, downloadHidden,
                          editDisabled, loaderHidden, imageVars, promptValue,
                          pending, outstanding>>]_vars

\* a click was rejected for want of an image while a result was on display
C17_Witness ==
    /\ lastOp = "submit"
    /\ alertMsg = AlertNoImage
    /\ editedImageSrc # NULL
    /\ ~downloadHidden

\* C18: selecting an image, with no file chosen, with a read that succeeds
\* or with a read that fails, changes neither the stored result nor the
\* result area nor the visibility of the download button.
C18_SelectionKeepsResult ==
    [][lastOp' \in {"select", "selectNone", "onload"} =>
           UNCHANGED <<editedImageSrc, resultContainer, downloadHidden>>]_vars

\* a new source image was loaded with a result stored and downloadable
C18_Witness ==
    /\ lastOp = "onload"
    /\ uncaught = ""
    /\ originalImageSrc = EmptyPayloadUrl
    /\ editedImageSrc # NULL
    /\ ~downloadHidden

\* C19: an issued request carries the prompt, the image data and the MIME
\* type of the state the click found; no image selection, load event, prompt
\* change or download alters an outstanding request, and the images a
\* response renders carry the prompt of their request.
C19_RequestCarriesSubmitValues ==
    [][/\ RequestIssued =>
              outstanding' = outstanding (+)
                  SetToBag({[prompt |-> promptValue,
                             base64Data |-> imageBase64,
                             mimeType |-> imageMimeType]})
       /\ lastOp' \in {"select", "selectNone", "onload", "example", "type",
                       "download"} => outstanding' = outstanding
       /\ lastOp' = "respond" =>
              \E r \in BagToSet(outstanding) :
                  /\ outstanding' = outstanding (-) SetToBag({r})
                  /\ \A i \in ImagesIn(resultContainer') :
                         resultContainer'[i].text = r.prompt]_vars

\* a response was rendered after the prompt and the image had been changed
\* while its request was outstanding
C19_Witness ==
    /\ lastOp = "respond"
    /\ resultContainer = <<ImgNode(PartUrl(ImgPartA), DefaultPrompt)>>
    /\ promptValue = <<"blanco", " ", "y", " ", "negro">>
    /\ imageBase64 = <<>>

\* C20 as stated: choosing an entry of the dropdown sets the prompt to that
\* entry's value and changes nothing else.  The code breaks it for the entry
\* with the empty value, which leaves the prompt as it was (line 32).
C20_ExampleSetsPrompt ==
    [][\A v \in ExampleValues :
           SelectExample(v) =>
               /\ promptValue' = v
               /\ UNCHANGED <<imageVars, resultVars, editDisabled, pending,
                              outstanding>>]_vars

\* C20 amended: choosing an entry with a non-empty value sets the prompt to
\* that value, choosing the entry with the empty value leaves the prompt as
\* it was, and neither changes anything else.
C20_ExampleSetsNonEmptyPrompt ==
    [][\A v \in ExampleValues :
           SelectExample(v) =>
               /\ v # <<>> => promptValue' = v
               /\ v = <<>> => promptValue' = promptValue
               /\ UNCHANGED <<imageVars, resultVars, editDisabled, pending,
                              outstanding>>]_vars

\* an example was chosen over a typed prompt
C20_Witness ==
    /\ lastOp = "example"
    /\ promptValue = <<"blanco", " ", "y", " ", "negro">>

====
